---- MODULE Spec2Model ----
(***************************************************************************)
(* The participant simulator (simulator.py: worker, generate_names,        *)
(* run_simulation) and the Streamlit process controller                    *)
(* (monitor_streamlit.py: is_pid_running, Start and Stop handlers), as     *)
(* listed in src/monitor_streamlit.py.                                     *)
(*                                                                         *)
(* Spec follows one simulator process and its workers, started from the    *)
(* command line with a stagger of 0.  RunSpec follows the first simulator  *)
(* a controller session starts, with its workers.  CtlSpec follows a       *)
(* controller session over several simulator processes, of which it keeps  *)
(* the lifetime only.  NamesSpec follows generate_names over the draws of  *)
(* the name pools, TimedSpec the launch and the stagger sleep against the  *)
(* clock, WorkSpec one call of cpu_work_for against the clock.             *)
(***************************************************************************)
EXTENDS Integers, Sequences, FiniteSets, TLC

\* ------------------------------------------------------------- bounds
\* Largest --users value the model starts a run with.
MaxUsers == 2
\* Largest count cpu_work_for returns in the model (the real count is
\* machine dependent).
MaxJobs == 1
\* Iterations of the monitoring loop whose prints the model writes to the log.
MaxPolls == 1
\* Interrupt requests (SIGINT / KeyboardInterrupt) delivered to the supervisor.
MaxInterrupts == 2
\* Simulator processes a controller session spawns in CtlSpec.
MaxRuns == 3
\* Largest stay and work duration, in seconds, DurSpec starts a run with.
MaxDur == 3
\* Largest --users value NamesSpec calls generate_names with.
MaxCount == 3
\* Entries of each name pool random.choice draws from in NamesSpec.
PoolUsed == 3
\* Largest --stagger value, in clock ticks, TimedSpec starts a run with.
MaxStagger == 1
\* Last tick of the clock.
MaxClock == 3
\* Iterations of the work loop WorkSpec follows in one call.
MaxUnits == 2

\* ------------------------------------------------------------- data
None == "None"
\* st.session_state.proc_pid = None; pids are 1, 2, ... in spawn order
NoPid == 0
LogPath == "simulator.log"
MeetingCode == "SIM-MEET-123"
\* list(status.items())[:5]
SampleSize == 5

\* (stay_seconds, work_seconds) of the runs Spec follows: the README's example
Durations == {<<60, 15>>}
\* the pairs DurSpec starts a run with: every pair up to MaxDur, the README's
\* example and a run whose work exceeds its stay
DurInputs == ((0..MaxDur) \X (0..MaxDur)) \cup {<<60, 15>>, <<10, 20>>}

First == <<"Aarav", "Vivaan", "Aditya", "Arjun", "Reyansh",
           "Krishna", "Kabir", "Ishaan", "Vihaan", "Rohan">>
Last == <<"Sharma", "Verma", "Khan", "Patel", "Singh",
          "Gupta", "Reddy", "Nair", "Mehta", "Joshi">>

LifeCycle == <<"connecting", "connected", "working", "idle", "left">>

\* datetime.utcnow().isoformat() + "Z", taken at the named point of a worker
Timestamp(ev) == "utc@" \o ev \o "Z"

Max(a, b) == IF a >= b THEN a ELSE b

VARIABLES
    proc_pid,      \* st.session_state.proc_pid
    notice,        \* the st.success / st.warning message of the last button
    sup_pc,        \* position of the simulator's main process
    ptable,        \* OS process table: the state of each simulator process
    stdoutIsLog,   \* the simulator's stdout is the log file (Popen stdout=f)
    users,         \* --users
    stay, work,    \* --stay, --work
    logfile,       \* --log (None when empty)
    stagger,       \* --stagger, in clock ticks
    managerUp,     \* the Manager() server process is serving
    names,         \* generate_names(number_of_users)
    launched,      \* len(processes)
    delay,         \* per worker: the stagger argument of its Process, i * stagger
    status,        \* the manager dict: name -> entry
    wpc,           \* position of each worker process
    jobs_done,     \* worker local
    remaining,     \* worker local: the argument of time.sleep at line 66
    termPending,   \* workers with a SIGTERM sent by p.terminate()
    log,           \* the lines of the file at the log path
    polls,         \* monitoring iterations whose output reached the log file
    interrupts,    \* interrupt requests delivered so far
    reported,      \* "Simulation complete" was printed
    stateHist,     \* per worker: the values its table entry's state has taken
    aliveAtInt,    \* workers alive when the first interrupt arrived
    logFailed,     \* workers whose append raised
    diag,          \* workers that printed "Could not write log"
    now,           \* time.time(), in clock ticks
    started,       \* per worker: the clock when it created its entry (line 47)
    connected,     \* per worker: the clock when it passed line 53
    call_seconds,  \* cpu_work_for: the argument of the call in progress
    end,           \* cpu_work_for: end = time.time() + seconds
    call_count,    \* cpu_work_for: count
    loop_pc,       \* cpu_work_for: position in the while loop
    unit_start,    \* the clock when the iteration in progress passed the loop test
    units          \* <<start, finish>> of every iteration counted so far

vars == <<proc_pid, notice, sup_pc, ptable, stdoutIsLog, users, stay, work, logfile,
          managerUp, names, launched, status, wpc, jobs_done, remaining,
          termPending, log, polls, interrupts, reported, stateHist,
          aliveAtInt, logFailed, diag, stagger, delay, now, started, connected,
          call_seconds, end, call_count, loop_pc, unit_start, units>>

ctlVars == <<proc_pid, notice, ptable>>
cfgVars == <<stdoutIsLog, users, stay, work, logfile, stagger>>
\* the clock and the locals of the cpu_work_for call WorkSpec follows
timeVars == <<now, call_seconds, end, call_count, loop_pc, unit_start, units>>

Workers == 1..MaxUsers

\* ------------------------------------------------------------- helpers
\* a Python dict is a function from the keys it holds; d.get(key) is None for
\* a key it does not hold
DictGet(d, key) == IF key \in DOMAIN d THEN d[key] ELSE None
\* d[key] = value
DictSet(d, key, value) ==
    [f \in DOMAIN d \cup {key} |-> IF f = key THEN value ELSE d[f]]
\* the locals a worker has bound so far: k is in the domain once bound
Bind(locals, k, value) ==
    [j \in DOMAIN locals \cup {k} |-> IF j = k THEN value ELSE locals[j]]

\* status_dict[name] = value   (DictProxy.__setitem__)
ProxySetItem(tbl, key, value) == DictSet(tbl, key, value)

\* status_dict[name]   (DictProxy.__getitem__): the manager sends back a
\* pickled copy of the stored entry.
ProxyGetItem(tbl, key) == tbl[key]

\* status_dict[name][field] = value: the item assignment is applied to the
\* copy __getitem__ returned; nothing is sent back to the manager.
NestedAssign(tbl, key, field, value) ==
    LET copy == DictSet(ProxyGetItem(tbl, key), field, value)
    IN  tbl

\* print(...) of the simulator or of a worker: a line of the inherited stdout
TextLine(msg) == [kind |-> "text", text |-> msg]
\* json.dumps(record) + "\n"
JsonLine(record) == [kind |-> "json", obj |-> record]

Stdout(lines) == IF stdoutIsLog THEN log \o lines ELSE log

Alive(k) == wpc[k] \notin {"unborn", "exited", "crashed", "terminated"}
Exited(k) == wpc[k] \in {"exited", "crashed", "terminated"}
Launched == 1..launched

\* what the supervisor reads for worker k's state (None: no entry yet)
TableState(k) ==
    IF k \in DOMAIN names /\ names[k] \in DOMAIN status
    THEN status[names[k]].state ELSE None

Observe(hist, tbl) ==
    [k \in Workers |->
        IF k \in DOMAIN names /\ names[k] \in DOMAIN tbl
           /\ (hist[k] = <<>> \/ hist[k][Len(hist[k])] # tbl[names[k]].state)
        THEN Append(hist[k], tbl[names[k]].state)
        ELSE hist[k]]

\* ------------------------------------------------------------- names
\* names built without the "#{i+1}" suffix
generate_names_unnumbered(count, pick) ==
    [k \in 1..count |-> First[pick[k][1]] \o " " \o Last[pick[k][2]]]

\* f"{random.choice(first)} {random.choice(last)} #{i+1}" for i in range(count);
\* pick[i+1] is the pair of pool indexes the two random.choice calls drew.
generate_names(count, pick) ==
    [k \in 1..count |->
        First[pick[k][1]] \o " " \o Last[pick[k][2]] \o " #" \o ToString(k)]

\* the draws of random.choice Spec follows: every participant draws the same
\* first and last name, so that only the suffix tells the names apart
Sampled == {<<1, 1>>}
Picks(count) == [1..count -> Sampled]
\* the draws NamesSpec follows: any of the first PoolUsed entries of each pool
PoolPicks(count) == [1..count -> (1..PoolUsed) \X (1..PoolUsed)]

\* ------------------------------------------------------------- controller
\* os.kill(pid, 0) succeeds while the pid names a process, a zombie included,
\* and raises OSError once the process was waited for
ProcessExists(pid) == pid \in 1..Len(ptable) /\ ptable[pid] # "reaped"

is_pid_running(pid) ==
    IF pid = NoPid THEN FALSE ELSE ProcessExists(pid)

Init ==
    /\ proc_pid = NoPid
    /\ notice = None
    /\ sup_pc = "none"
    /\ ptable = <<>>
    /\ stdoutIsLog = FALSE
    /\ users = 0
    /\ stay = 0
    /\ work = 0
    /\ logfile = None
    /\ managerUp = FALSE
    /\ names = <<>>
    /\ launched = 0
    /\ status = <<>>
    /\ wpc = [k \in Workers |-> "unborn"]
    /\ jobs_done = <<>>
    /\ remaining = <<>>
    /\ termPending = {}
    /\ log = <<>>
    /\ polls = 0
    /\ interrupts = 0
    /\ reported = FALSE
    /\ stateHist = [k \in Workers |-> <<>>]
    /\ aliveAtInt = {}
    /\ logFailed = {}
    /\ diag = {}
    /\ stagger = 0
    /\ delay = <<>>
    /\ now = 0
    /\ started = <<>>
    /\ connected = <<>>
    /\ call_seconds = 0
    /\ end = 0
    /\ call_count = 0
    /\ loop_pc = "idle"
    /\ unit_start = 0
    /\ units = <<>>

simVars == <<managerUp, names, launched, status, wpc, jobs_done, remaining,
             termPending, polls, interrupts, reported, stateHist, aliveAtInt,
             logFailed, diag, delay, started, connected>>

\* python simulator.py --users n --stay s --work w --log lf --stagger sg, from
\* a shell
MainWith(n, sw, lf, sg) ==
    /\ ptable = <<>>
    /\ ptable' = <<"running">>
    /\ sup_pc' = "begin"
    /\ users' = n
    /\ stay' = sw[1]
    /\ work' = sw[2]
    /\ logfile' = lf
    /\ stagger' = sg
    /\ stdoutIsLog' = FALSE
    /\ UNCHANGED <<proc_pid, notice, log>>
    /\ UNCHANGED simVars
    /\ UNCHANGED timeVars

\* the same with --stagger 0
Main(n, sw, lf) == MainWith(n, sw, lf, 0)

\* subprocess.Popen(cmd, stdout=f, stderr=subprocess.STDOUT) with
\* f = open(log_path, "a"): a new process runs simulator.py. The simulator
\* variables follow the first process spawned, pid 1.
Popen(n, sw) ==
    /\ ptable' = Append(ptable, "running")
    /\ IF ptable = <<>>
       THEN /\ sup_pc' = "begin"
            /\ users' = n
            /\ stay' = sw[1]
            /\ work' = sw[2]
            /\ logfile' = LogPath
            /\ stagger' = 0
            /\ stdoutIsLog' = TRUE
       ELSE UNCHANGED <<sup_pc, users, stay, work, logfile, stagger, stdoutIsLog>>

\* Start without the liveness probe
StartUnchecked(n, sw) ==
    /\ Len(ptable) < MaxRuns
    /\ Popen(n, sw)
    /\ proc_pid' = Len(ptable) + 1
    /\ notice' = "Started simulation"
    /\ UNCHANGED log
    /\ UNCHANGED simVars
    /\ UNCHANGED timeVars

\* The "Start Simulation" button with the sidebar holding n, sw, LogPath and a
\* stagger of 0
Start(n, sw) ==
    IF is_pid_running(proc_pid)
    THEN /\ notice' = "Simulation already running"
         /\ UNCHANGED <<proc_pid, ptable, sup_pc, log>>
         /\ UNCHANGED <<cfgVars, timeVars>>
         /\ UNCHANGED simVars
    ELSE /\ Len(ptable) < MaxRuns
         /\ Popen(n, sw)
         /\ proc_pid' = Len(ptable) + 1
         /\ notice' = "Started simulation"
         /\ UNCHANGED log
         /\ UNCHANGED simVars
         /\ UNCHANGED timeVars

\* a kill that sends signal 0, which ends nothing
KillProbeOnly(tbl, pid) == tbl

\* os.kill(pid, signal.SIGTERM): a running process ends at once (simulator.py
\* installs no handler); a zombie is unaffected
Kill(tbl, pid) ==
    [tbl EXCEPT ![pid] = IF tbl[pid] = "running" THEN "zombie" ELSE tbl[pid]]

\* Stop that signals the process and keeps tracking it
StopKeepsPid ==
    IF is_pid_running(proc_pid)
    THEN /\ ptable' = Kill(ptable, proc_pid)
         /\ sup_pc' = IF proc_pid = 1 /\ ptable[proc_pid] = "running"
                      THEN "killed" ELSE sup_pc
         /\ notice' = "Stopped simulation"
         /\ UNCHANGED <<proc_pid, log>>
         /\ UNCHANGED <<cfgVars, timeVars>>
         /\ UNCHANGED simVars
    ELSE /\ notice' = "No running simulation detected"
         /\ UNCHANGED <<proc_pid, ptable, sup_pc, log>>
         /\ UNCHANGED <<cfgVars, timeVars>>
         /\ UNCHANGED simVars

\* The "Stop Simulation" button
Stop ==
    IF is_pid_running(proc_pid)
    THEN /\ ptable' = Kill(ptable, proc_pid)
         /\ sup_pc' = IF proc_pid = 1 /\ ptable[proc_pid] = "running"
                      THEN "killed" ELSE sup_pc
         /\ proc_pid' = NoPid
         /\ notice' = "Stopped simulation"
         /\ UNCHANGED log
         /\ UNCHANGED <<cfgVars, timeVars>>
         /\ UNCHANGED simVars
    ELSE /\ notice' = "No running simulation detected"
         /\ UNCHANGED <<proc_pid, ptable, sup_pc, log>>
         /\ UNCHANGED <<cfgVars, timeVars>>
         /\ UNCHANGED simVars

\* The controller's Popen object is finalized or swept by subprocess._cleanup:
\* the exited simulator is waited for and its pid released.
Reap(pid) ==
    /\ pid \in 1..Len(ptable)
    /\ ptable[pid] = "zombie"
    /\ ptable' = [ptable EXCEPT ![pid] = "reaped"]
    /\ UNCHANGED <<proc_pid, notice, sup_pc, log>>
    /\ UNCHANGED <<cfgVars, timeVars>>
    /\ UNCHANGED simVars

\* CtlSpec's view of a simulator: it runs, then its process ends
SimExit(pid) ==
    /\ pid \in 1..Len(ptable)
    /\ ptable[pid] = "running"
    /\ ptable' = [ptable EXCEPT ![pid] = "zombie"]
    /\ sup_pc' = IF pid = 1 THEN "done" ELSE sup_pc
    /\ UNCHANGED <<proc_pid, notice, log>>
    /\ UNCHANGED <<cfgVars, timeVars>>
    /\ UNCHANGED simVars

\* ------------------------------------------------------------- clock
\* a tick of the wall clock
Tick ==
    /\ now < MaxClock
    /\ now' = now + 1
    /\ UNCHANGED <<call_seconds, end, call_count, loop_pc, unit_start, units>>
    /\ UNCHANGED <<sup_pc, log>>
    /\ UNCHANGED ctlVars
    /\ UNCHANGED cfgVars
    /\ UNCHANGED simVars

\* ------------------------------------------------------------- work loop
\* the rest of the state, which a step of cpu_work_for leaves alone
loopFrame == <<ctlVars, cfgVars, simVars, sup_pc, log, now>>

\* cpu_work_for(s) is entered: end = time.time() + seconds; count = 0
WorkCall(s) ==
    /\ loop_pc = "idle"
    /\ call_seconds' = s
    /\ end' = now + s
    /\ call_count' = 0
    /\ loop_pc' = "test"
    /\ UNCHANGED <<unit_start, units>>
    /\ UNCHANGED loopFrame

\* a loop test that lets an iteration begin at the deadline
WorkTestInclusive ==
    /\ loop_pc = "test"
    /\ IF now <= end
       THEN /\ call_count < MaxUnits
            /\ loop_pc' = "unit"
            /\ unit_start' = now
       ELSE /\ loop_pc' = "returned"
            /\ UNCHANGED unit_start
    /\ UNCHANGED <<call_seconds, end, call_count, units>>
    /\ UNCHANGED loopFrame

\* while time.time() < end: the body is entered, or the loop ends and count
\* is returned
WorkTest ==
    /\ loop_pc = "test"
    /\ IF now < end
       THEN /\ call_count < MaxUnits
            /\ loop_pc' = "unit"
            /\ unit_start' = now
       ELSE /\ loop_pc' = "returned"
            /\ UNCHANGED unit_start
    /\ UNCHANGED <<call_seconds, end, call_count, units>>
    /\ UNCHANGED loopFrame

\* the body: one number is drawn and tested for primality, which takes the
\* ticks that passed since the loop test; count += 1
WorkUnit ==
    /\ loop_pc = "unit"
    /\ call_count' = call_count + 1
    /\ units' = Append(units, <<unit_start, now>>)
    /\ loop_pc' = "test"
    /\ UNCHANGED <<call_seconds, end, unit_start>>
    /\ UNCHANGED loopFrame

\* ------------------------------------------------------------- supervisor
supVars == <<names, launched, polls, reported, delay>>
workerVars == <<status, wpc, jobs_done, remaining, stateHist, logFailed, diag,
                started, connected>>

AllExited == \A k \in Launched : Exited(k)

\* run_simulation up to the launch loop: Manager(), manager.dict(),
\* generate_names and the "Starting simulation" print; picks holds the draws
\* random.choice can make
BeginWith(picks) ==
    /\ sup_pc = "begin"
    /\ \E pick \in picks : names' = generate_names(users, pick)
    /\ managerUp' = TRUE
    /\ log' = Stdout(<<TextLine("Starting simulation: " \o ToString(users)
                                \o " participants")>>)
    /\ sup_pc' = "launch"
    /\ UNCHANGED <<launched, polls, reported, delay, termPending, interrupts,
                   aliveAtInt>>
    /\ UNCHANGED workerVars
    /\ UNCHANGED ctlVars
    /\ UNCHANGED <<cfgVars, timeVars>>

Begin == BeginWith(Picks(users))

\* a launch loop that passes stagger, not i * stagger, to every worker
LaunchSameDelay ==
    /\ sup_pc = "launch"
    /\ launched < users
    /\ launched' = launched + 1
    /\ delay' = Bind(delay, launched + 1, stagger)
    /\ wpc' = [wpc EXCEPT ![launched + 1] = "spawned"]
    /\ UNCHANGED <<sup_pc, managerUp, names, polls, reported, termPending,
                   interrupts, aliveAtInt, log>>
    /\ UNCHANGED <<status, jobs_done, remaining, stateHist, logFailed, diag,
                   started, connected>>
    /\ UNCHANGED ctlVars
    /\ UNCHANGED <<cfgVars, timeVars>>

\* one iteration of the launch loop, i = launched: Process(target=worker,
\* args=(..., i * stagger)), p.start(), processes.append(p)
Launch ==
    /\ sup_pc = "launch"
    /\ launched < users
    /\ launched' = launched + 1
    /\ delay' = Bind(delay, launched + 1, launched * stagger)
    /\ wpc' = [wpc EXCEPT ![launched + 1] = "spawned"]
    /\ UNCHANGED <<sup_pc, managerUp, names, polls, reported, termPending,
                   interrupts, aliveAtInt, log>>
    /\ UNCHANGED <<status, jobs_done, remaining, stateHist, logFailed, diag,
                   started, connected>>
    /\ UNCHANGED ctlVars
    /\ UNCHANGED <<cfgVars, timeVars>>

\* the launch loop is exhausted: control enters the try block
EnterMonitor ==
    /\ sup_pc = "launch"
    /\ launched = users
    /\ sup_pc' = "monitor"
    /\ UNCHANGED <<managerUp, termPending, interrupts, aliveAtInt, log>>
    /\ UNCHANGED supVars
    /\ UNCHANGED workerVars
    /\ UNCHANGED ctlVars
    /\ UNCHANGED <<cfgVars, timeVars>>

\* the lines one monitoring iteration prints: the alive count and the state
\* of up to SampleSize entries of the table (listed here in launch order; the
\* table lists them in the order of their first write)
SampleLines ==
    LET present == SelectSeq(names, LAMBDA n : n \in DOMAIN status)
        shown == SubSeq(present, 1, IF Len(present) < SampleSize
                                     THEN Len(present) ELSE SampleSize)
    IN  [j \in 1..Len(shown) |->
            TextLine("  " \o shown[j] \o ": " \o ProxyGetItem(status, shown[j]).state)]

PollLines ==
    <<TextLine("Alive workers: "
               \o ToString(Cardinality({k \in Launched : Alive(k)})))>>
    \o SampleLines

\* one iteration of the monitoring loop (some worker is alive)
Poll ==
    /\ sup_pc = "monitor"
    /\ \E k \in Launched : Alive(k)
    /\ polls < MaxPolls
    /\ polls' = IF stdoutIsLog THEN polls + 1 ELSE polls
    /\ log' = Stdout(PollLines)
    /\ UNCHANGED <<sup_pc, managerUp, names, launched, reported, delay,
                   termPending, interrupts, aliveAtInt>>
    /\ UNCHANGED workerVars
    /\ UNCHANGED ctlVars
    /\ UNCHANGED <<cfgVars, timeVars>>

\* a monitoring loop that ends only when no process was launched
MonitorNeverDone ==
    /\ sup_pc = "monitor"
    /\ launched = 0
    /\ sup_pc' = "join"
    /\ UNCHANGED <<managerUp, termPending, interrupts, aliveAtInt, log>>
    /\ UNCHANGED supVars
    /\ UNCHANGED workerVars
    /\ UNCHANGED ctlVars
    /\ UNCHANGED <<cfgVars, timeVars>>

\* the loop condition is false: no worker is alive; control reaches finally
MonitorDone ==
    /\ sup_pc = "monitor"
    /\ \A k \in Launched : ~Alive(k)
    /\ sup_pc' = "join"
    /\ UNCHANGED <<managerUp, termPending, interrupts, aliveAtInt, log>>
    /\ UNCHANGED supVars
    /\ UNCHANGED workerVars
    /\ UNCHANGED ctlVars
    /\ UNCHANGED <<cfgVars, timeVars>>

\* where a KeyboardInterrupt raised at position pc takes the supervisor:
\* the try block covers the monitoring loop only
InterruptTarget(pc) ==
    CASE pc = "monitor" -> "except"
      [] pc = "except"  -> "unwind"
      [] pc = "dying"   -> "crashed"
      [] OTHER          -> "dying"

\* SIGINT is delivered to the simulator's main process
Interrupt ==
    /\ sup_pc \in {"begin", "launch", "monitor", "except", "unwind", "join",
                   "report", "dying"}
    /\ interrupts < MaxInterrupts
    /\ interrupts' = interrupts + 1
    /\ sup_pc' = InterruptTarget(sup_pc)
    /\ managerUp' = IF InterruptTarget(sup_pc) = "dying" THEN FALSE ELSE managerUp
    /\ aliveAtInt' = IF interrupts = 0 THEN {k \in Launched : Alive(k)}
                     ELSE aliveAtInt
    /\ ptable' = IF InterruptTarget(sup_pc) = "crashed"
                 THEN [ptable EXCEPT ![1] = "zombie"] ELSE ptable
    /\ UNCHANGED <<termPending, log>>
    /\ UNCHANGED supVars
    /\ UNCHANGED workerVars
    /\ UNCHANGED <<proc_pid, notice>>
    /\ UNCHANGED <<cfgVars, timeVars>>

\* the except KeyboardInterrupt clause: p.terminate() for every process
Terminate ==
    /\ sup_pc = "except"
    /\ termPending' = termPending \cup {k \in Launched : Alive(k)}
    /\ log' = Stdout(<<TextLine("KeyboardInterrupt received: terminating children")>>)
    /\ sup_pc' = "join"
    /\ UNCHANGED <<managerUp, interrupts, aliveAtInt>>
    /\ UNCHANGED supVars
    /\ UNCHANGED workerVars
    /\ UNCHANGED ctlVars
    /\ UNCHANGED <<cfgVars, timeVars>>

\* a finally clause that does not wait for the workers
JoinNoWait ==
    /\ sup_pc = "join"
    /\ sup_pc' = "report"
    /\ UNCHANGED <<managerUp, termPending, interrupts, aliveAtInt, log>>
    /\ UNCHANGED supVars
    /\ UNCHANGED workerVars
    /\ UNCHANGED ctlVars
    /\ UNCHANGED <<cfgVars, timeVars>>

\* the finally clause: p.join() for every process returns once all have exited
Join ==
    /\ sup_pc = "join"
    /\ AllExited
    /\ sup_pc' = "report"
    /\ UNCHANGED <<managerUp, termPending, interrupts, aliveAtInt, log>>
    /\ UNCHANGED supVars
    /\ UNCHANGED workerVars
    /\ UNCHANGED ctlVars
    /\ UNCHANGED <<cfgVars, timeVars>>

\* the finally clause run while a KeyboardInterrupt raised in the except
\* clause propagates; the interpreter then shuts down
Unwind ==
    /\ sup_pc = "unwind"
    /\ AllExited
    /\ sup_pc' = "dying"
    /\ managerUp' = FALSE
    /\ UNCHANGED <<termPending, interrupts, aliveAtInt, log>>
    /\ UNCHANGED supVars
    /\ UNCHANGED workerVars
    /\ UNCHANGED ctlVars
    /\ UNCHANGED <<cfgVars, timeVars>>

\* the "Simulation complete" print; run_simulation returns and the process
\* exits, shutting the manager down
Report ==
    /\ sup_pc = "report"
    /\ reported' = TRUE
    /\ log' = Stdout(<<TextLine("Simulation complete. Logs -> "
                                \o (IF logfile = None THEN "stdout" ELSE logfile))>>)
    /\ managerUp' = FALSE
    /\ sup_pc' = "done"
    /\ ptable' = [ptable EXCEPT ![1] = "zombie"]
    /\ UNCHANGED <<names, launched, polls, delay, termPending, interrupts,
                   aliveAtInt>>
    /\ UNCHANGED workerVars
    /\ UNCHANGED <<proc_pid, notice>>
    /\ UNCHANGED <<cfgVars, timeVars>>

\* interpreter exit after an uncaught KeyboardInterrupt: the manager was shut
\* down, multiprocessing's exit handler joins the children, the process ends
ExitUncaught ==
    /\ sup_pc = "dying"
    /\ AllExited
    /\ sup_pc' = "crashed"
    /\ ptable' = [ptable EXCEPT ![1] = "zombie"]
    /\ UNCHANGED <<managerUp, termPending, interrupts, aliveAtInt, log>>
    /\ UNCHANGED supVars
    /\ UNCHANGED workerVars
    /\ UNCHANGED <<proc_pid, notice>>
    /\ UNCHANGED <<cfgVars, timeVars>>

\* ------------------------------------------------------------- worker
\* the counts cpu_work_for(seconds) can return: one per completed iteration
\* of a loop that runs while time.time() < end
cpu_work_for(seconds) == IF seconds <= 0 THEN {0} ELSE 0..MaxJobs

\* the idle time without the clamp
IdleTimeUnclamped(stay_seconds, work_seconds) == stay_seconds - work_seconds

\* remaining = max(0, stay_seconds - work_seconds)
IdleTime(stay_seconds, work_seconds) == Max(0, stay_seconds - work_seconds)

\* a worker that runs on after the SIGTERM of p.terminate()
CanStepAfterTerm(k) == Alive(k)

\* a worker takes its next step while it is alive and no SIGTERM is pending
CanStep(k) == Alive(k) /\ k \notin termPending

wFrame == <<sup_pc, managerUp, names, launched, polls, reported, termPending,
            interrupts, aliveAtInt, delay>>

\* a worker that creates its entry under the first participant's name
WConnectingSharedKey(k) ==
    /\ wpc[k] = "spawned"
    /\ CanStep(k)
    /\ managerUp
    /\ status' = ProxySetItem(status, names[1],
                    [state |-> "connecting",
                     pid |-> "pid of worker " \o ToString(k),
                     started_at |-> Timestamp("started")])
    /\ started' = Bind(started, k, now)
    /\ wpc' = [wpc EXCEPT ![k] = "connecting"]
    /\ stateHist' = Observe(stateHist, status')
    /\ UNCHANGED <<jobs_done, remaining, logFailed, diag, log, connected>>
    /\ UNCHANGED wFrame
    /\ UNCHANGED ctlVars
    /\ UNCHANGED <<cfgVars, timeVars>>

\* pid, started_at and the first table write (the entry is created), then the
\* stagger sleep
WConnecting(k) ==
    /\ wpc[k] = "spawned"
    /\ CanStep(k)
    /\ managerUp
    /\ status' = ProxySetItem(status, names[k],
                    [state |-> "connecting",
                     pid |-> "pid of worker " \o ToString(k),
                     started_at |-> Timestamp("started")])
    /\ started' = Bind(started, k, now)
    /\ wpc' = [wpc EXCEPT ![k] = "connecting"]
    /\ stateHist' = Observe(stateHist, status')
    /\ UNCHANGED <<jobs_done, remaining, logFailed, diag, log, connected>>
    /\ UNCHANGED wFrame
    /\ UNCHANGED ctlVars
    /\ UNCHANGED <<cfgVars, timeVars>>

\* time.sleep(stagger) of a positive stagger has returned
Awake(k) == delay[k] > 0 => now >= started[k] + delay[k]

\* status_dict[name]["state"] = "connected"; ...["connected_at"] = now
WConnected(k) ==
    /\ wpc[k] = "connecting"
    /\ CanStep(k)
    /\ Awake(k)
    /\ managerUp
    /\ status' = NestedAssign(NestedAssign(status, names[k], "state", "connected"),
                              names[k], "connected_at", Timestamp("connected"))
    /\ connected' = Bind(connected, k, now)
    /\ wpc' = [wpc EXCEPT ![k] = "connected"]
    /\ stateHist' = Observe(stateHist, status')
    /\ UNCHANGED <<jobs_done, remaining, logFailed, diag, log, started>>
    /\ UNCHANGED wFrame
    /\ UNCHANGED ctlVars
    /\ UNCHANGED <<cfgVars, timeVars>>

\* status_dict[name]["state"] = "working"; ...["work_started_at"] = now
WWorking(k) ==
    /\ wpc[k] = "connected"
    /\ CanStep(k)
    /\ managerUp
    /\ status' = NestedAssign(NestedAssign(status, names[k], "state", "working"),
                              names[k], "work_started_at", Timestamp("work_started"))
    /\ wpc' = [wpc EXCEPT ![k] = "working"]
    /\ stateHist' = Observe(stateHist, status')
    /\ UNCHANGED <<jobs_done, remaining, logFailed, diag, log>>
    /\ UNCHANGED wFrame
    /\ UNCHANGED <<started, connected>>
    /\ UNCHANGED ctlVars
    /\ UNCHANGED <<cfgVars, timeVars>>

\* jobs_done = cpu_work_for(work_seconds); ...["work_done"] = jobs_done;
\* ...["work_finished_at"] = now
WWork(k) ==
    /\ wpc[k] = "working"
    /\ CanStep(k)
    /\ managerUp
    /\ \E c \in cpu_work_for(work) :
        /\ jobs_done' = Bind(jobs_done, k, c)
        /\ status' = NestedAssign(NestedAssign(status, names[k], "work_done", c),
                                  names[k], "work_finished_at",
                                  Timestamp("work_finished"))
    /\ wpc' = [wpc EXCEPT ![k] = "worked"]
    /\ stateHist' = Observe(stateHist, status')
    /\ UNCHANGED <<remaining, logFailed, diag, log>>
    /\ UNCHANGED wFrame
    /\ UNCHANGED <<started, connected>>
    /\ UNCHANGED ctlVars
    /\ UNCHANGED <<cfgVars, timeVars>>

\* remaining = max(0, stay - work); ...["state"] = "idle"; time.sleep(remaining)
WIdle(k) ==
    /\ wpc[k] = "worked"
    /\ CanStep(k)
    /\ managerUp
    /\ remaining' = Bind(remaining, k, IdleTime(stay, work))
    /\ status' = NestedAssign(status, names[k], "state", "idle")
    /\ wpc' = [wpc EXCEPT ![k] = "idle"]
    /\ stateHist' = Observe(stateHist, status')
    /\ UNCHANGED <<jobs_done, logFailed, diag, log>>
    /\ UNCHANGED wFrame
    /\ UNCHANGED <<started, connected>>
    /\ UNCHANGED ctlVars
    /\ UNCHANGED <<cfgVars, timeVars>>

\* ...["state"] = "left"; ...["left_at"] = now
WLeft(k) ==
    /\ wpc[k] = "idle"
    /\ CanStep(k)
    /\ managerUp
    /\ status' = NestedAssign(NestedAssign(status, names[k], "state", "left"),
                              names[k], "left_at", Timestamp("left"))
    /\ wpc' = [wpc EXCEPT ![k] = "left"]
    /\ stateHist' = Observe(stateHist, status')
    /\ UNCHANGED <<jobs_done, remaining, logFailed, diag, log>>
    /\ UNCHANGED wFrame
    /\ UNCHANGED <<started, connected>>
    /\ UNCHANGED ctlVars
    /\ UNCHANGED <<cfgVars, timeVars>>

\* the record built at lines 73-79; left_at is status_dict[name].get("left_at")
LogRecord(k) ==
    [name |-> names[k],
     meeting_code |-> MeetingCode,
     started_at |-> Timestamp("started"),
     left_at |-> DictGet(ProxyGetItem(status, names[k]), "left_at"),
     work_done |-> jobs_done[k]]

\* no log path: worker returns
WReturn(k) ==
    /\ wpc[k] = "left"
    /\ CanStep(k)
    /\ logfile = None
    /\ wpc' = [wpc EXCEPT ![k] = "exited"]
    /\ UNCHANGED <<status, jobs_done, remaining, stateHist, logFailed, diag, log>>
    /\ UNCHANGED wFrame
    /\ UNCHANGED <<started, connected>>
    /\ UNCHANGED ctlVars
    /\ UNCHANGED <<cfgVars, timeVars>>

\* a worker that returns without appending its record
WLogDropped(k) ==
    /\ wpc[k] = "left"
    /\ CanStep(k)
    /\ logfile # None
    /\ managerUp
    /\ wpc' = [wpc EXCEPT ![k] = "exited"]
    /\ UNCHANGED <<status, jobs_done, remaining, stateHist, logFailed, diag, log>>
    /\ UNCHANGED wFrame
    /\ UNCHANGED <<started, connected>>
    /\ UNCHANGED ctlVars
    /\ UNCHANGED <<cfgVars, timeVars>>

\* a worker that appends its record before its transition to left
WLogEarly(k) ==
    /\ wpc[k] = "idle"
    /\ CanStep(k)
    /\ logfile # None
    /\ managerUp
    /\ log' = Append(log, JsonLine(LogRecord(k)))
    /\ wpc' = [wpc EXCEPT ![k] = "left"]
    /\ UNCHANGED <<status, jobs_done, remaining, stateHist, logFailed, diag>>
    /\ UNCHANGED wFrame
    /\ UNCHANGED <<started, connected>>
    /\ UNCHANGED ctlVars
    /\ UNCHANGED <<cfgVars, timeVars>>

\* the record is appended to the log file; worker returns
WLog(k) ==
    /\ wpc[k] = "left"
    /\ CanStep(k)
    /\ logfile # None
    /\ managerUp
    /\ log' = Append(log, JsonLine(LogRecord(k)))
    /\ wpc' = [wpc EXCEPT ![k] = "exited"]
    /\ UNCHANGED <<status, jobs_done, remaining, stateHist, logFailed, diag>>
    /\ UNCHANGED wFrame
    /\ UNCHANGED <<started, connected>>
    /\ UNCHANGED ctlVars
    /\ UNCHANGED <<cfgVars, timeVars>>

\* open() or write() raises and nothing catches it: the worker dies with a
\* traceback
WLogFailRaises(k) ==
    /\ wpc[k] = "left"
    /\ CanStep(k)
    /\ logfile # None
    /\ managerUp
    /\ logFailed' = logFailed \cup {k}
    /\ log' = Stdout(<<TextLine("Traceback (most recent call last)")>>)
    /\ wpc' = [wpc EXCEPT ![k] = "crashed"]
    /\ UNCHANGED <<status, jobs_done, remaining, stateHist, diag>>
    /\ UNCHANGED wFrame
    /\ UNCHANGED <<started, connected>>
    /\ UNCHANGED ctlVars
    /\ UNCHANGED <<cfgVars, timeVars>>

\* open() or write() raises: the except clause prints the diagnostic; worker
\* returns
WLogFail(k) ==
    /\ wpc[k] = "left"
    /\ CanStep(k)
    /\ logfile # None
    /\ managerUp
    /\ logFailed' = logFailed \cup {k}
    /\ diag' = diag \cup {k}
    /\ log' = Stdout(<<TextLine("Could not write log")>>)
    /\ wpc' = [wpc EXCEPT ![k] = "exited"]
    /\ UNCHANGED <<status, jobs_done, remaining, stateHist>>
    /\ UNCHANGED wFrame
    /\ UNCHANGED <<started, connected>>
    /\ UNCHANGED ctlVars
    /\ UNCHANGED <<cfgVars, timeVars>>

\* the worker's next statement uses the table
UsesTable(k) ==
    \/ wpc[k] \in {"spawned", "connecting", "connected", "working", "worked", "idle"}
    \/ wpc[k] = "left" /\ logfile # None

\* a table access after the manager was shut down raises in the worker; the
\* traceback goes to the inherited stderr (stderr=subprocess.STDOUT)
WCrash(k) ==
    /\ CanStep(k)
    /\ UsesTable(k)
    /\ ~managerUp
    /\ wpc' = [wpc EXCEPT ![k] = "crashed"]
    /\ log' = Stdout(<<TextLine("Traceback (most recent call last)")>>)
    /\ UNCHANGED <<status, jobs_done, remaining, stateHist, logFailed, diag>>
    /\ UNCHANGED wFrame
    /\ UNCHANGED <<started, connected>>
    /\ UNCHANGED ctlVars
    /\ UNCHANGED <<cfgVars, timeVars>>

\* the SIGTERM of p.terminate() ends the worker
WTerminated(k) ==
    /\ Alive(k)
    /\ k \in termPending
    /\ wpc' = [wpc EXCEPT ![k] = "terminated"]
    /\ UNCHANGED <<status, jobs_done, remaining, stateHist, logFailed, diag, log>>
    /\ UNCHANGED wFrame
    /\ UNCHANGED <<started, connected>>
    /\ UNCHANGED ctlVars
    /\ UNCHANGED <<cfgVars, timeVars>>

\* the steps of a worker started with a log path
LoggedStep(k) ==
    \/ WConnecting(k)
    \/ WConnected(k)
    \/ WWorking(k)
    \/ WWork(k)
    \/ WIdle(k)
    \/ WLeft(k)
    \/ WLog(k)
    \/ WLogFail(k)

WorkerStep(k) ==
    \/ LoggedStep(k)
    \/ WReturn(k)

\* the steps of the simulator's main process
SupStep ==
    \/ Begin
    \/ Launch
    \/ EnterMonitor
    \/ Poll
    \/ MonitorDone
    \/ Terminate
    \/ Join
    \/ Unwind
    \/ Report
    \/ ExitUncaught

\* a simulator started from a shell
Next ==
    \/ \E n \in 1..MaxUsers, sw \in Durations, lf \in {None, LogPath} : Main(n, sw, lf)
    \/ SupStep
    \/ Interrupt
    \/ \E k \in Workers : WorkerStep(k)
    \/ \E k \in Workers : WCrash(k)
    \/ \E k \in Workers : WTerminated(k)

Spec == Init /\ [][Next]_vars

\* every process is scheduled: the supervisor and each worker take their next
\* step; the interrupt is the environment's and is not forced
Fairness ==
    /\ WF_vars(SupStep)
    /\ \A k \in Workers : WF_vars(WorkerStep(k) \/ WCrash(k) \/ WTerminated(k))

FairSpec == Spec /\ Fairness

\* one uninterrupted participant, over the stay and work durations of DurInputs
DurNext ==
    \/ \E sw \in DurInputs, lf \in {None, LogPath} : Main(1, sw, lf)
    \/ Begin
    \/ Launch
    \/ EnterMonitor
    \/ Poll
    \/ MonitorDone
    \/ Join
    \/ Report
    \/ WorkerStep(1)

DurSpec == Init /\ [][DurNext]_vars

\* the first simulator of a controller session, with the session's buttons
RunNext ==
    \/ \E n \in 1..MaxUsers, sw \in Durations :
          (is_pid_running(proc_pid) \/ ptable = <<>>) /\ Start(n, sw)
    \/ Stop
    \/ Reap(1)
    \/ SupStep
    \/ Interrupt
    \/ \E k \in Workers : LoggedStep(k)
    \/ \E k \in Workers : WCrash(k)
    \/ \E k \in Workers : WTerminated(k)

RunSpec == Init /\ [][RunNext]_vars

\* a controller session and the lifetimes of the simulators it starts
CtlNext ==
    \/ \E n \in 1..MaxUsers, sw \in Durations : Start(n, sw)
    \/ Stop
    \/ \E pid \in 1..MaxRuns : SimExit(pid)
    \/ \E pid \in 1..MaxRuns : Reap(pid)

CtlSpec == Init /\ [][CtlNext]_vars

\* a run up to the return of generate_names, over the draws of PoolPicks
NamesNext ==
    \/ \E n \in 1..MaxCount, sw \in Durations : Main(n, sw, None)
    \/ BeginWith(PoolPicks(users))

NamesSpec == Init /\ [][NamesNext]_vars

\* a run up to the workers' connection, over the staggers up to MaxStagger,
\* with the clock
TimedNext ==
    \/ \E n \in 1..MaxUsers, sw \in Durations, sg \in 0..MaxStagger :
          MainWith(n, sw, LogPath, sg)
    \/ Begin
    \/ Launch
    \/ EnterMonitor
    \/ \E k \in Workers : WConnecting(k)
    \/ \E k \in Workers : WConnected(k)
    \/ Tick

TimedSpec == Init /\ [][TimedNext]_vars

\* one call of cpu_work_for, over the work durations from -1 to MaxDur, with
\* the clock
WorkNext ==
    \/ \E s \in (0 - 1)..MaxDur : WorkCall(s)
    \/ WorkTest
    \/ WorkUnit
    \/ Tick

WorkSpec == Init /\ [][WorkNext]_vars

\* ------------------------------------------------------------- properties
JsonLines == {i \in 1..Len(log) : log[i].kind = "json"}
RecordsOf(name) == {i \in JsonLines : log[i].obj.name = name}
RecordFields == {"name", "meeting_code", "started_at", "left_at", "work_done"}

\* C1: for every worker that ran to completion, the values the state field of
\* its entry in the status table has taken are exactly connecting, connected,
\* working, idle, left, in that order.
C1_StateSequence ==
    \A k \in Workers : wpc[k] = "exited" => stateHist[k] = LifeCycle

\* C2: a run started with N >= 1 participants and a log path that is neither
\* interrupted nor hit by a failed log write eventually has a log holding
\* exactly N participant records, one for each generated name.
LogComplete ==
    /\ Cardinality(JsonLines) = users
    /\ \A k \in 1..users : Cardinality(RecordsOf(names[k])) = 1
C2_AllRecordsEventually ==
    (sup_pc = "begin" /\ logfile # None)
        ~> (interrupts > 0 \/ logFailed # {} \/ (sup_pc = "done" /\ LogComplete))
C2_Witness ==
    /\ users = MaxUsers
    /\ interrupts = 0
    /\ logFailed = {}
    /\ sup_pc = "done"
    /\ LogComplete

\* C3: once a run that was interrupted (once) after its workers were launched
\* has ended, every worker that was alive at the interrupt was sent terminate.
C3_InterruptTerminatesAll ==
    (sup_pc \in {"done", "crashed"} /\ interrupts = 1 /\ launched = users)
        => aliveAtInt \subseteq termPending

\* C4: "Simulation complete" is reported only when every worker of the run
\* was launched and has exited, whether the run was interrupted or not.
C4_ReportAfterAllExited ==
    reported => (launched = users /\ \A k \in 1..users : Exited(k))
C4_Witness ==
    /\ reported
    /\ interrupts > 0
    /\ \E k \in Workers : wpc[k] = "terminated"
    /\ \E k \in Workers : wpc[k] = "exited"

\* C5: every line of the log file is a participant record with exactly the
\* five documented fields and a non-negative integer work_done.
IsParticipantRecord(line) ==
    /\ line.kind = "json"
    /\ DOMAIN line.obj = RecordFields
    /\ line.obj.work_done \in Nat
C5_OnlyParticipantRecords ==
    \A i \in 1..Len(log) : IsParticipantRecord(log[i])

\* C6: the record a worker appends carries its name, the meeting label, its
\* start timestamp, the timestamp it recorded at its transition to left, and
\* the count its work loop returned.
C6_RecordContents ==
    \A k \in 1..Len(names) : \A i \in RecordsOf(names[k]) :
        /\ log[i].obj.meeting_code = MeetingCode
        /\ log[i].obj.started_at = Timestamp("started")
        /\ log[i].obj.left_at = Timestamp("left")
        /\ log[i].obj.work_done = jobs_done[k]

\* C7: a Start requested while the liveness probe reports the tracked process
\* id as running spawns no process and leaves the tracked id as it was.
C7_StartRejectedWhileRunning ==
    [][\A n \in 1..MaxUsers, sw \in Durations :
          (is_pid_running(proc_pid) /\ Start(n, sw))
              => (ptable' = ptable /\ proc_pid' = proc_pid)]_vars
C7_Witness ==
    /\ notice = "Simulation already running"
    /\ proc_pid # NoPid
    /\ Len(ptable) < MaxRuns

\* C8 as stated: after any Stop the controller tracks no process id.
C8_StopAlwaysClears ==
    [][Stop => proc_pid' = NoPid]_vars
\* C8 as amended: when the probe reports the tracked id as running, Stop sends
\* SIGTERM to that process and clears the tracked id; otherwise it sends no
\* signal and leaves the tracked id as it was.
C8_StopClearsWhenRunning ==
    [][Stop => IF is_pid_running(proc_pid)
               THEN /\ proc_pid' = NoPid
                    /\ ptable'[proc_pid] # "running"
                    /\ \A p \in 1..Len(ptable) : p # proc_pid => ptable'[p] = ptable[p]
               ELSE proc_pid' = proc_pid /\ ptable' = ptable]_vars
C8_Witness ==
    /\ notice = "Stopped simulation"
    /\ proc_pid = NoPid
    /\ \E p \in 1..Len(ptable) : ptable[p] = "zombie"

\* C9: the duration a worker sleeps in idle is stay - work when stay >= work
\* and 0 when work exceeds stay; it is never negative.
C9_IdleClamped ==
    \A k \in DOMAIN remaining :
        /\ remaining[k] >= 0
        /\ stay >= work => remaining[k] = stay - work
        /\ work > stay => remaining[k] = 0
        /\ (stay = 60 /\ work = 15) => remaining[k] = 45
C9_Witness ==
    \E k \in DOMAIN remaining :
        wpc[k] = "idle" /\ stay = 10 /\ work = 20 /\ remaining[k] = 0

\* C10: a failed append happens to a worker that has reached left; the worker
\* prints the diagnostic, leaves no record, exits normally, and the step
\* changes neither the supervisor's position nor any other worker.
C10_LogFailureContained ==
    [][\A k \in Workers : (k \in logFailed' /\ k \notin logFailed) =>
          /\ wpc[k] = "left"
          /\ wpc'[k] = "exited"
          /\ k \in diag'
          /\ {i \in 1..Len(log') : log'[i].kind = "json"
                                   /\ log'[i].obj.name = names[k]} = {}
          /\ sup_pc' = sup_pc
          /\ \A j \in Workers \ {k} : wpc'[j] = wpc[j]]_vars
C10_Witness ==
    \E k \in logFailed, j \in Workers \ logFailed :
        /\ wpc[k] = "exited"
        /\ wpc[j] = "exited"
        /\ RecordsOf(names[j]) # {}
        /\ reported

\* C11: generate_names(N) returns exactly N names and no two of them are
\* equal, whatever first and last names were drawn.
C11_NamesDistinct ==
    sup_pc = "launch" =>
        /\ Len(names) = users
        /\ \A i, j \in 1..Len(names) : i # j => names[i] # names[j]
C11_Witness ==
    /\ sup_pc = "launch"
    /\ Len(names) >= 2
    /\ names[1] = "Aarav Sharma #1"
    /\ names[2] = "Aarav Sharma #2"

\* C12: the supervisor monitors only after all N workers were launched; worker
\* index i (k = i + 1) is given the delay i * stagger; a worker with a positive
\* delay is in connecting, and its table entry reads connecting, until that
\* delay has elapsed since it created its entry, and passes to connected no
\* earlier; a worker with delay 0 can pass to connected at once.
C12_StaggeredConnect ==
    /\ sup_pc = "monitor" => launched = users
    /\ \A k \in DOMAIN delay : delay[k] = (k - 1) * stagger
    /\ \A k \in DOMAIN started :
          now < started[k] + (k - 1) * stagger
              => (wpc[k] = "connecting" /\ TableState(k) = "connecting")
    /\ \A k \in DOMAIN connected :
          connected[k] >= started[k] + (k - 1) * stagger
    /\ \A k \in Workers :
          (wpc[k] = "connecting" /\ (k - 1) * stagger = 0)
              => ENABLED WConnected(k)
C12_Witness ==
    /\ sup_pc = "monitor"
    /\ stagger > 0
    /\ {1, 2} \subseteq DOMAIN connected
    /\ connected[1] = started[1]
    /\ connected[2] = started[2] + stagger

\* C13: a step that changes the status table is a step of one worker and
\* changes, or creates, only the entry keyed by that worker's name; no entry
\* is removed; no step of the supervisor changes the table.
C13_OwnEntryOnly ==
    [][/\ DOMAIN status \subseteq DOMAIN status'
       /\ (SupStep \/ Interrupt) => status' = status
       /\ status' # status =>
             \E k \in 1..Len(names) :
                 /\ wpc'[k] # wpc[k]
                 /\ \A n \in DOMAIN status' \ {names[k]} :
                        n \in DOMAIN status /\ status'[n] = status[n]]_vars
C13_Witness ==
    /\ Len(names) = 2
    /\ DOMAIN status = {names[1], names[2]}
    /\ \A k \in 1..2 : status[names[k]].pid = "pid of worker " \o ToString(k)

\* C14: while the supervisor can read the table, the entry of a worker that
\* completed its lifecycle and exited normally has state left and holds
\* work_done and left_at.
C14_FinalEntryRead ==
    \A k \in Workers :
        (wpc[k] = "exited" /\ managerUp) =>
            /\ TableState(k) = "left"
            /\ {"work_done", "left_at"} \subseteq DOMAIN ProxyGetItem(status, names[k])

\* C15 as stated: when the work loop has returned, every counted unit finished
\* before the deadline, the count is non-negative, and it is 0 for a work
\* duration of 0 or less.
C15_NoLateUnit ==
    loop_pc = "returned" =>
        /\ call_count \in Nat
        /\ \A i \in 1..Len(units) : units[i][2] < end
        /\ call_seconds <= 0 => call_count = 0
\* C15 as amended: the count is non-negative and is the number of iterations
\* completed; every counted unit began before the deadline; only the last
\* counted unit can finish at or after the deadline; the count is 0 for a
\* work duration of 0 or less.
C15_UnitsStartBeforeDeadline ==
    loop_pc # "idle" =>
        /\ call_count \in Nat
        /\ call_count = Len(units)
        /\ \A i \in 1..Len(units) : units[i][1] < end
        /\ \A i \in 1..(Len(units) - 1) : units[i][2] < end
        /\ call_seconds <= 0 => call_count = 0
C15_Witness ==
    /\ loop_pc = "returned"
    /\ call_count = 2
    /\ units[1][2] < end
    /\ units[2][1] < end
    /\ units[2][2] >= end

\* C16: a step that appends a record for a participant is taken by its
\* worker after the transition to left (not from connecting, connected,
\* working or idle), and that participant had no record before.
C16_OneRecordAfterLeft ==
    [][\A k \in 1..Len(names) :
          {i \in 1..Len(log') : log'[i].kind = "json" /\ log'[i].obj.name = names[k]}
              # RecordsOf(names[k])
          => /\ wpc[k] = "left"
             /\ wpc'[k] = "exited"
             /\ RecordsOf(names[k]) = {}
             /\ Len(log') = Len(log) + 1]_vars
C16_Witness ==
    /\ Len(names) = 2
    /\ wpc[1] = "exited"
    /\ Cardinality(RecordsOf(names[1])) = 1
    /\ wpc[2] = "idle"
    /\ RecordsOf(names[2]) = {}

\* C17: under fair scheduling a run that is not interrupted eventually
\* reports completion with every one of its workers exited normally, and the
\* monitoring loop is left only when no launched worker is alive.
C17_RunCompletes ==
    /\ (sup_pc = "begin")
          ~> (interrupts > 0
              \/ (reported /\ sup_pc = "done"
                  /\ \A k \in 1..users : wpc[k] = "exited"))
    /\ [][(sup_pc = "monitor" /\ sup_pc' = "join")
             => \A k \in Launched : ~Alive(k)]_vars
C17_Witness ==
    /\ reported
    /\ interrupts = 0
    /\ logfile = None
    /\ users = MaxUsers
    /\ \A k \in 1..users : wpc[k] = "exited"

\* C18: at any time at most one simulator process spawned by the controller
\* session is running.
RunningSims == {p \in 1..Len(ptable) : ptable[p] = "running"}
C18_OneSimulatorAlive ==
    Cardinality(RunningSims) <= 1
C18_Witness ==
    \E p, q \in 1..Len(ptable) :
        /\ p < q
        /\ ptable[p] # "running"
        /\ ptable[q] = "running"
        /\ proc_pid = q

\* C19: once Stop has ended the simulator's main process, no worker appends
\* a log record.
C19_NoRecordAfterStop ==
    [][sup_pc = "killed" =>
          Cardinality({i \in 1..Len(log') : log'[i].kind = "json"})
              = Cardinality(JsonLines)]_vars

\* C20: a worker that was sent terminate has no record in the log; the log
\* holds one record for each worker that passed left and appended, and so at
\* most N records.
Writers == {k \in 1..Len(names) : wpc[k] = "exited" /\ k \notin logFailed}
C20_TerminatedWritesNothing ==
    /\ \A k \in termPending : RecordsOf(names[k]) = {}
    /\ Cardinality(JsonLines) <= users
    /\ logfile # None => Cardinality(JsonLines) = Cardinality(Writers)
    /\ logfile # None => \A k \in Writers : Cardinality(RecordsOf(names[k])) = 1
C20_Witness ==
    /\ sup_pc = "done"
    /\ interrupts = 1
    /\ Cardinality(JsonLines) = 1
    /\ \E k \in termPending, j \in Workers :
          /\ wpc[k] = "terminated"
          /\ wpc[j] = "exited"
          /\ RecordsOf(names[j]) # {}

====
